---- MODULE Spec2Model ----
(***************************************************************************)
(* Model of the pileup decoding and depth aggregation code:                *)
(*   src/TargetSeq/QC/mpileup.py            MpileupParser, clean_seq,       *)
(*                                          _remove_indel,                  *)
(*                                          _remove_low_quality,            *)
(*                                          remove_asterisk                 *)
(*   src/TargetSeq/QC/calculate_gene_depth.py   CalculateGeneDepth          *)
(*   src/calculate_gene_depth.py                CalcGeneDepth               *)
(*                                                                         *)
(* A Python str is a sequence of one-character strings.  A float that the  *)
(* code rounds to 2 decimals is the integer number of hundredths.          *)
(***************************************************************************)
EXTENDS Integers, Sequences, FiniteSets, TLC

VARIABLES
    file,           \* the rows of the mpileup file at self.path
    pc,             \* position of the run
    mpileup,        \* self.mpileup, the table of MpileupParser
    processed_seq,  \* local list of MpileupParser.__init__
    processed_qual, \* local list of MpileupParser.__init__
    printed,        \* the (cleaned_seq, qual) pairs printed by line 156
    err,            \* the exception that ended the run, "none" when none did
    result,         \* the value the last depth query returned
    variant,        \* which gene-depth reporter runs: "direct" | "xref" | "none"
    version,        \* the argument of CalcGeneDepth.__init__
    genelist,       \* the rows of the gene list file given to the reporter
    gene_df,        \* self.gene_df of the reporter, UNSET when never assigned
    genes,          \* CalcGeneDepth.genes, the coordinate table
    report,         \* the table the reporter returned
    bases,          \* input base string of the cleaning functions
    quals,          \* input quality string of the cleaning functions
    out,            \* what the last cleaning function returned
    prev,           \* what the cleaning function before the last one returned
    passes          \* how many times the cleaner ran on its own output

loaderVars == <<file, pc, mpileup, processed_seq, processed_qual, printed, err, result>>
reportVars == <<variant, version, genelist, gene_df, genes, report>>
cleanVars == <<bases, quals, out, prev, passes>>
vars == <<file, pc, mpileup, processed_seq, processed_qual, printed, err, result,
          variant, version, genelist, gene_df, genes, report, bases, quals, out, prev, passes>>

----------------------------------------------------------------------------
(* Bounds of the model *)

\* longest base string enumerated for the cleaning functions
MaxLen == 4
\* most rows in an enumerated mpileup file
MaxRows == 3
\* most entries in an enumerated gene list
MaxGenes == 2
\* most times the cleaner is applied to its own output
MaxPasses == 2

----------------------------------------------------------------------------
(* Python values *)

\* pandas' NaN for an empty field; no str equals it
NULL == <<"NaN">>
\* an attribute that was never assigned
UNSET == <<"unset">>
\* no value yet
NONE == [kind |-> "none"]

Range(s) == {s[i] : i \in 1..Len(s)}

\* s[a:b] of Python, a and b 0-based, b clamped to len(s)
Slice(s, a, b) == SubSeq(s, a + 1, IF b > Len(s) THEN Len(s) ELSE b)

RECURSIVE SumSeq(_)
SumSeq(s) == IF s = <<>> THEN 0 ELSE Head(s) + SumSeq(Tail(s))

----------------------------------------------------------------------------
(* _remove_indel *)

IsSign(c) == c \in {"+", "-"}

Digits == {"0", "1", "2", "3", "4", "5", "6", "7", "8", "9"}

IsDigit(c) == c \in Digits

DigitVal(c) ==
    CASE c = "0" -> 0 [] c = "1" -> 1 [] c = "2" -> 2 [] c = "3" -> 3
      [] c = "4" -> 4 [] c = "5" -> 5 [] c = "6" -> 6 [] c = "7" -> 7
      [] c = "8" -> 8 [] c = "9" -> 9

\* abs(int(found.group())): the sign is dropped, the digit run read in base ten
RECURSIVE IntOfDigits(_, _)
IntOfDigits(ds, acc) ==
    IF ds = <<>> THEN acc
    ELSE IntOfDigits(Tail(ds), acc * 10 + DigitVal(Head(ds)))

\* re.search(r'[+-][0-9]+', seq).start() as a 1-based index, 0 when no match
SearchIndel(seq) ==
    LET hits == {i \in 1..(Len(seq) - 1) : IsSign(seq[i]) /\ IsDigit(seq[i + 1])}
    IN IF hits = {} THEN 0 ELSE CHOOSE i \in hits : \A j \in hits : i <= j

\* found.end(): the 1-based index of the last digit of the greedy digit run
\* that starts right after the sign at i (equal to Python's 0-based end)
MatchEnd(seq, i) ==
    CHOOSE j \in (i + 1)..Len(seq) :
        /\ \A k \in (i + 1)..j : IsDigit(seq[k])
        /\ (j = Len(seq) \/ ~IsDigit(seq[j + 1]))

StartsWith(s, sub) == Len(sub) <= Len(s) /\ SubSeq(s, 1, Len(sub)) = sub

\* str.replace(sub, ''): every non-overlapping occurrence, left to right
RECURSIVE Replace(_, _)
Replace(s, sub) ==
    IF s = <<>> \/ sub = <<>> THEN s
    ELSE IF StartsWith(s, sub) THEN Replace(SubSeq(s, Len(sub) + 1, Len(s)), sub)
    ELSE <<Head(s)>> \o Replace(Tail(s), sub)

\* IndelString with end = found.end(): the N bases after the digits are kept
IndelStringSignAndDigits(seq) ==
    LET i == SearchIndel(seq)
        e == MatchEnd(seq, i)
    IN Slice(seq, i - 1, e)

\* the string to delete on one turn of the while loop: seq[start:end]
IndelString(seq) ==
    LET i == SearchIndel(seq)
        e == MatchEnd(seq, i)
        n == IntOfDigits(SubSeq(seq, i + 1, e), 0)
    IN Slice(seq, i - 1, e + n)

RECURSIVE _remove_indel(_)
_remove_indel(seq) ==
    IF SearchIndel(seq) = 0 THEN seq
    ELSE _remove_indel(Replace(seq, IndelString(seq)))

----------------------------------------------------------------------------
(* _remove_low_quality *)

\* SubCaret with count=1: only the first caret pair is removed
SubCaretFirstOnly(s) ==
    LET hits == {i \in 1..(Len(s) - 1) : s[i] = "^"}
    IN IF hits = {} THEN s
       ELSE LET i == CHOOSE i \in hits : \A j \in hits : i <= j
            IN SubSeq(s, 1, i - 1) \o SubSeq(s, i + 2, Len(s))

\* re.sub(r'\^.', '', seq): a caret and the character after it
RECURSIVE SubCaret(_)
SubCaret(s) ==
    IF s = <<>> THEN s
    ELSE IF Head(s) = "^" /\ Len(s) >= 2 THEN SubCaret(SubSeq(s, 3, Len(s)))
    ELSE <<Head(s)>> \o SubCaret(Tail(s))

\* the character class of unwanted_symbols_2
UnwantedSymbols ==
    Digits \cup {"@", "'", "&", "!", "?", "_", "$", ":", ";", "F", "\"", "+",
                 "#", "-", "=", "%", ")", "(", "/", "~", "}", "["}

KeepSymbol(c) == c \notin UnwantedSymbols

\* re.sub(unwanted_symbols_2, '', out_seq)
SubUnwanted(s) == SelectSeq(s, KeepSymbol)

_remove_low_quality(seq) == SubUnwanted(SubCaret(seq))

clean_seq(seq) == _remove_low_quality(_remove_indel(seq))

----------------------------------------------------------------------------
(* remove_asterisk *)

\* list.index('*') as a 1-based index
IndexOfAsterisk(l) == CHOOSE i \in 1..Len(l) : l[i] = "*" /\ \A j \in 1..(i - 1) : l[j] # "*"

\* list.pop(i), the list that is left
Pop(l, i) == SubSeq(l, 1, i - 1) \o SubSeq(l, i + 1, Len(l))

\* AsteriskLoop with qual_list.pop(0): the first quality character is dropped
\* instead of the one aligned with the asterisk
RECURSIVE AsteriskLoopPopsFirst(_, _)
AsteriskLoopPopsFirst(seq_list, qual_list) ==
    IF "*" \notin Range(seq_list) THEN [err |-> "none", seq |-> seq_list, qual |-> qual_list]
    ELSE IF qual_list = <<>> THEN [err |-> "IndexError", seq |-> <<>>, qual |-> <<>>]
    ELSE AsteriskLoopPopsFirst(Pop(seq_list, IndexOfAsterisk(seq_list)), Tail(qual_list))

\* the while loop of remove_asterisk; qual_list.pop raises IndexError when
\* the index is past its end
RECURSIVE AsteriskLoop(_, _)
AsteriskLoop(seq_list, qual_list) ==
    IF "*" \notin Range(seq_list) THEN [err |-> "none", seq |-> seq_list, qual |-> qual_list]
    ELSE LET pop_idx == IndexOfAsterisk(seq_list)
         IN IF pop_idx > Len(qual_list)
            THEN [err |-> "IndexError", seq |-> <<>>, qual |-> <<>>]
            ELSE AsteriskLoop(Pop(seq_list, pop_idx), Pop(qual_list, pop_idx))

\* remove_asterisk with its two assert statements left out
remove_asterisk_no_assert(seq, qual) == AsteriskLoop(seq, qual)

remove_asterisk(seq, qual) ==
    IF Len(seq) # Len(qual) THEN [err |-> "AssertionError", seq |-> <<>>, qual |-> <<>>]
    ELSE LET r == AsteriskLoop(seq, qual)
         IN IF r.err = "none" /\ Len(r.seq) # Len(r.qual)
            THEN [err |-> "AssertionError", seq |-> <<>>, qual |-> <<>>]
            ELSE r

----------------------------------------------------------------------------
(* The cleaning functions applied to enumerated strings *)

\* characters of the enumerated base strings: a base, the deletion
\* placeholder, the two signs, a digit, the read-start caret, the read-end
\* dollar
CleanAlphabet == {"A", "*", "+", "-", "1", "^", "$"}

\* quality characters, all different so that a kept character shows the
\* index it came from
QualChars == <<"F", "G", "H", "I", "J", "K", "L", "M", "N", "O">>

StringsUpTo(alphabet, n) == UNION {[1..k -> alphabet] : k \in 0..n}

\* the worked examples of the documentation, a string whose first token
\* "+1A" occurs again inside the 2 characters of the token "+2+1", and a string
\* where deleting the token "+1A" joins a sign and a digit
ExampleBases ==
    { <<"A", "+", "2", "A", "G", "T">>,
      <<"A", "*", "C">>,
      <<"+", "1", "A", "+", "2", "+", "1", "A">>,
      <<"+", "+", "1", "A", "1">> }

InputBases == StringsUpTo(CleanAlphabet, MaxLen) \cup ExampleBases

InputQuals(b) == {SubSeq(QualChars, 1, k) : k \in 0..MaxLen} \cup {SubSeq(QualChars, 1, Len(b))}

\* what MpileupParser.__init__ does to the seq and qual of one row:
\* clean_seq (line 149), clean_seq again (line 154), remove_asterisk (line 157)
Cleaner(seq, qual) == remove_asterisk(clean_seq(clean_seq(seq)), qual)

idleLoader ==
    /\ file = <<>>
    /\ pc = "idle"
    /\ mpileup = <<>>
    /\ processed_seq = <<>>
    /\ processed_qual = <<>>
    /\ printed = <<>>
    /\ err = "none"
    /\ result = NONE

idleReport ==
    /\ variant = "none"
    /\ version = "None"
    /\ genelist = <<>>
    /\ gene_df = UNSET
    /\ genes = {}
    /\ report = NONE

idleClean ==
    /\ bases = <<>>
    /\ quals = <<>>
    /\ out = NONE
    /\ prev = NONE
    /\ passes = 0

InitClean ==
    /\ idleLoader
    /\ idleReport
    /\ bases \in InputBases
    /\ quals \in InputQuals(bases)
    /\ out = NONE
    /\ prev = NONE
    /\ passes = 0

ApplyRemoveIndel ==
    /\ out = NONE
    /\ out' = [kind |-> "_remove_indel", err |-> "none", seq |-> _remove_indel(bases), qual |-> quals]
    /\ passes' = 1
    /\ UNCHANGED <<bases, quals, prev>>
    /\ UNCHANGED <<loaderVars, reportVars>>

ApplyCleanSeq ==
    /\ out = NONE
    /\ out' = [kind |-> "clean_seq", err |-> "none", seq |-> clean_seq(bases), qual |-> quals]
    /\ passes' = 1
    /\ UNCHANGED <<bases, quals, prev>>
    /\ UNCHANGED <<loaderVars, reportVars>>

ApplyRemoveAsterisk ==
    /\ out = NONE
    /\ LET r == remove_asterisk(bases, quals)
       IN out' = [kind |-> "remove_asterisk", err |-> r.err, seq |-> r.seq, qual |-> r.qual]
    /\ passes' = 1
    /\ UNCHANGED <<bases, quals, prev>>
    /\ UNCHANGED <<loaderVars, reportVars>>

ApplyCleaner ==
    /\ out = NONE
    /\ LET r == Cleaner(bases, quals)
       IN out' = [kind |-> "cleaner", err |-> r.err, seq |-> r.seq, qual |-> r.qual]
    /\ passes' = 1
    /\ UNCHANGED <<bases, quals, prev>>
    /\ UNCHANGED <<loaderVars, reportVars>>

\* clean_seq on the string a clean_seq returned
ReapplyCleanSeq ==
    /\ out # NONE
    /\ out.kind = "clean_seq"
    /\ passes < MaxPasses
    /\ prev' = out
    /\ out' = [kind |-> "clean_seq", err |-> "none", seq |-> clean_seq(out.seq), qual |-> out.qual]
    /\ passes' = passes + 1
    /\ UNCHANGED <<bases, quals>>
    /\ UNCHANGED <<loaderVars, reportVars>>

\* the cleaner on the pair a cleaner returned
ReapplyCleaner ==
    /\ out # NONE
    /\ out.kind = "cleaner"
    /\ out.err = "none"
    /\ passes < MaxPasses
    /\ prev' = out
    /\ LET r == Cleaner(out.seq, out.qual)
       IN out' = [kind |-> "cleaner", err |-> r.err, seq |-> r.seq, qual |-> r.qual]
    /\ passes' = passes + 1
    /\ UNCHANGED <<bases, quals>>
    /\ UNCHANGED <<loaderVars, reportVars>>

NextClean ==
    \/ ApplyRemoveIndel
    \/ ApplyCleanSeq
    \/ ApplyRemoveAsterisk
    \/ ApplyCleaner
    \/ ReapplyCleanSeq
    \/ ReapplyCleaner

SpecClean == InitClean /\ [][NextClean]_vars

----------------------------------------------------------------------------
(* MpileupParser: the table and the depth queries *)

Row(chrom, pos, ref, depth, seq, qual) ==
    [chrom |-> chrom, pos |-> pos, ref |-> ref, depth |-> depth, seq |-> seq, qual |-> qual]

\* str.upper() on the reference base
Upper(c) ==
    CASE c = "a" -> "A" [] c = "c" -> "C" [] c = "g" -> "G" [] c = "t" -> "T"
      [] c = "n" -> "N" [] OTHER -> c

\* the column 'depth' of a table, in table order
DepthColumn(table) == [i \in 1..Len(table) |-> table[i].depth]

\* x / y rounded to the nearest integer, a tie to the even one: what
\* round(float, 2) returns, in hundredths, when x / y is 100 times the mean.
\* A tie needs len(depths) to be a multiple of 8; the tied mean is then an
\* exact binary fraction as long as len(depths) is no multiple of 40.
RoundHalfEven(x, y) ==
    LET q == x \div y
        r == x % y
    IN IF 2 * r < y THEN q
       ELSE IF 2 * r > y THEN q + 1
       ELSE IF q % 2 = 0 THEN q ELSE q + 1

\* round(mean(depths), 2) in hundredths
RoundedMean(depths) == RoundHalfEven(100 * SumSeq(depths), Len(depths))

\* calc_region_depth with cond3 = pos < end: the end position is left out
calc_region_depth_end_exclusive(table, chrom, start, end) ==
    LET InRegion(r) == r.chrom = chrom /\ start <= r.pos /\ r.pos < end
        depths == DepthColumn(SelectSeq(table, InRegion))
    IN IF Len(depths) = 0 THEN 0 ELSE RoundedMean(depths)

calc_region_depth(table, chrom, start, end) ==
    LET InRegion(r) == r.chrom = chrom /\ start <= r.pos /\ r.pos <= end
        depths == DepthColumn(SelectSeq(table, InRegion))
    IN IF Len(depths) = 0 THEN 0 ELSE RoundedMean(depths)

\* the property avg_depth; statistics.mean raises StatisticsError on no data
avg_depth(table) ==
    LET depths == DepthColumn(table)
    IN IF Len(depths) = 0 THEN [err |-> "StatisticsError", hundredths |-> 0]
       ELSE [err |-> "none", hundredths |-> RoundedMean(depths)]

\* uniformity with the threshold taken from every record, chrM included
uniformity_threshold_from_all(table) ==
    LET depths == DepthColumn(table)
        n == Len(depths)
        total == SumSeq(depths)
        ratio == [i \in 1..Len(depths) |-> IF 2 * depths[i] * n < total THEN 0 ELSE 1]
    IN IF n = 0 THEN [err |-> "StatisticsError", num |-> 0, den |-> 1]
       ELSE [err |-> "none", num |-> SumSeq(ratio), den |-> Len(ratio)]

\* the property uniformity, as the fraction num / den.  d < mean / 2 is
\* compared exactly: 2 * d * n < sum.
uniformity(table) ==
    LET NotMito(r) == r.chrom # "chrM"
        no_mitochondria_depth == DepthColumn(SelectSeq(table, NotMito))
        n == Len(no_mitochondria_depth)
        total == SumSeq(no_mitochondria_depth)
        depths == DepthColumn(table)
        ratio == [i \in 1..Len(depths) |-> IF 2 * depths[i] * n < total THEN 0 ELSE 1]
    IN IF n = 0 THEN [err |-> "StatisticsError", num |-> 0, den |-> 1]
       ELSE [err |-> "none", num |-> SumSeq(ratio), den |-> Len(ratio)]

----------------------------------------------------------------------------
(* MpileupParser.__init__, statement by statement *)

\* line 146 on a file with no line: read_csv raises EmptyDataError
ReadCsvRaises ==
    /\ pc = "start"
    /\ Len(file) = 0
    /\ pc' = "aborted"
    /\ err' = "EmptyDataError"
    /\ UNCHANGED <<file, mpileup, processed_seq, processed_qual, printed, result>>
    /\ UNCHANGED <<reportVars, cleanVars>>

\* lines 146-148: read_csv, then the reference base in upper case
ReadCsv ==
    /\ pc = "start"
    /\ Len(file) > 0
    /\ mpileup' = [i \in 1..Len(file) |-> [file[i] EXCEPT !.ref = Upper(@)]]
    /\ pc' = "read"
    /\ UNCHANGED <<file, processed_seq, processed_qual, printed, err, result>>
    /\ UNCHANGED <<reportVars, cleanVars>>

\* line 149: clean_seq on the seq of every row; re.search raises TypeError on
\* the NaN of an empty seq field
CleanAll ==
    /\ pc = "read"
    /\ \A i \in 1..Len(mpileup) : mpileup[i].seq # NULL
    /\ mpileup' = [i \in 1..Len(mpileup) |-> [mpileup[i] EXCEPT !.seq = clean_seq(@)]]
    /\ pc' = "cleaned"
    /\ UNCHANGED <<file, processed_seq, processed_qual, printed, err, result>>
    /\ UNCHANGED <<reportVars, cleanVars>>

CleanAllRaises ==
    /\ pc = "read"
    /\ \E i \in 1..Len(mpileup) : mpileup[i].seq = NULL
    /\ pc' = "aborted"
    /\ err' = "TypeError"
    /\ UNCHANGED <<file, mpileup, processed_seq, processed_qual, printed, result>>
    /\ UNCHANGED <<reportVars, cleanVars>>

QualNotNull(r) == r.qual # NULL

\* line 150: only the rows whose qual is not null stay in self.mpileup
DropNullQual ==
    /\ pc = "cleaned"
    /\ mpileup' = SelectSeq(mpileup, QualNotNull)
    /\ pc' = "loop"
    /\ UNCHANGED <<file, processed_seq, processed_qual, printed, err, result>>
    /\ UNCHANGED <<reportVars, cleanVars>>

\* lines 153-159: one turn of the for loop, on the row after the processed ones
LoopRow ==
    /\ pc = "loop"
    /\ Len(processed_seq) < Len(mpileup)
    /\ LET row == mpileup[Len(processed_seq) + 1]
           cleaned_seq == clean_seq(row.seq)
           r == remove_asterisk(cleaned_seq, row.qual)
       IN /\ printed' = IF Len(cleaned_seq) # Len(row.qual)
                        THEN Append(printed, <<cleaned_seq, row.qual>>)
                        ELSE printed
          /\ IF r.err = "none"
             THEN /\ processed_seq' = Append(processed_seq, r.seq)
                  /\ processed_qual' = Append(processed_qual, r.qual)
                  /\ UNCHANGED <<pc, err>>
             ELSE /\ pc' = "aborted"
                  /\ err' = r.err
                  /\ UNCHANGED <<processed_seq, processed_qual>>
    /\ UNCHANGED <<file, mpileup, result>>
    /\ UNCHANGED <<reportVars, cleanVars>>

\* lines 160-161: the processed columns replace seq and qual
StoreColumns ==
    /\ pc = "loop"
    /\ Len(processed_seq) = Len(mpileup)
    /\ mpileup' = [i \in 1..Len(mpileup) |->
                      [mpileup[i] EXCEPT !.seq = processed_seq[i], !.qual = processed_qual[i]]]
    /\ pc' = "loaded"
    /\ UNCHANGED <<file, processed_seq, processed_qual, printed, err, result>>
    /\ UNCHANGED <<reportVars, cleanVars>>

Load == ReadCsvRaises \/ ReadCsv \/ CleanAll \/ CleanAllRaises \/ DropNullQual \/ LoopRow \/ StoreColumns

----------------------------------------------------------------------------
(* The depth queries on a loaded parser.  A query reads self.mpileup and    *)
(* writes nothing, so a run of the model asks one query of each loaded      *)
(* table: a second query would start from the same table.                   *)

Chroms == {"chr1", "chrM"}

\* the positions a query may name: around and at the positions of the file
QueryPositions == (0..3) \cup {file[i].pos : i \in 1..Len(file)}

CalcRegionDepth ==
    /\ pc = "loaded"
    /\ variant = "none"
    /\ result = NONE
    /\ \E chrom \in Chroms, start \in QueryPositions, end \in QueryPositions :
          result' = [kind |-> "calc_region_depth", chrom |-> chrom, start |-> start,
                     end |-> end, err |-> "none",
                     value |-> calc_region_depth(mpileup, chrom, start, end)]
    /\ UNCHANGED <<file, pc, mpileup, processed_seq, processed_qual, printed, err>>
    /\ UNCHANGED <<reportVars, cleanVars>>

AvgDepth ==
    /\ pc = "loaded"
    /\ variant = "none"
    /\ result = NONE
    /\ LET r == avg_depth(mpileup)
       IN result' = [kind |-> "avg_depth", err |-> r.err, value |-> r.hundredths]
    /\ UNCHANGED <<file, pc, mpileup, processed_seq, processed_qual, printed, err>>
    /\ UNCHANGED <<reportVars, cleanVars>>

Uniformity ==
    /\ pc = "loaded"
    /\ variant = "none"
    /\ result = NONE
    /\ LET r == uniformity(mpileup)
       IN result' = [kind |-> "uniformity", err |-> r.err, num |-> r.num, den |-> r.den]
    /\ UNCHANGED <<file, pc, mpileup, processed_seq, processed_qual, printed, err>>
    /\ UNCHANGED <<reportVars, cleanVars>>

----------------------------------------------------------------------------
(* The mpileup files of the model *)

SeqsUpTo(S, n) == UNION {[1..k -> S] : k \in 0..n}

Loci == {<<"chr1", 1>>, <<"chr1", 2>>, <<"chrM", 1>>}

Depths == {0, 1, 2}

\* rows that differ in place and depth; two of them have an empty qual field
DepthRows ==
    {Row(l[1], l[2], "a", d, <<"A">>, <<"F">>) : l \in Loci, d \in Depths}
    \cup {Row("chr1", 1, "a", 2, <<"A">>, NULL), Row("chr1", 2, "a", 0, <<"*">>, NULL)}

\* rows that differ in the base and quality strings: plain, a deletion
\* placeholder, an indel token with read start and end markers, a base string
\* one longer than the quality string, an empty qual field, an empty seq field
PayloadRows ==
    {Row("chr1", 1, "g", 1, <<"A">>, <<"F">>),
     Row("chr1", 2, "g", 2, <<"A", "*">>, <<"F", "G">>),
     Row("chr1", 3, "g", 1, <<"^", "F", "A", "+", "1", "C", "$">>, <<"H">>),
     Row("chr1", 4, "g", 1, <<"A", "C">>, <<"F">>),
     Row("chr1", 5, "g", 1, <<"A">>, NULL),
     Row("chr1", 6, "g", 1, NULL, <<"F">>)}

PlainRows(chrom, first, depths) ==
    [i \in 1..Len(depths) |-> Row(chrom, first + i - 1, "A", depths[i], <<"A">>, <<"F">>)]

\* the worked examples of the documentation: depths 10, 20, 30 in one
\* interval; five non-mitochondrial records of depths 10, 10, 10, 10, 100
\* a file whose region chr1:1-3 has the mean depth 4/3, beside a record past
\* the region and a mitochondrial record
RoundingFile == PlainRows("chr1", 1, <<1, 1, 2, 9>>) \o PlainRows("chrM", 2, <<7>>)

ExampleFiles ==
    {PlainRows("chr1", 1, <<10, 20, 30>>),
     PlainRows("chr1", 1, <<10, 10, 10, 10, 100>>),
     RoundingFile}

InputFiles == SeqsUpTo(DepthRows, MaxRows) \cup SeqsUpTo(PayloadRows, MaxRows) \cup ExampleFiles

Init ==
    /\ file \in InputFiles
    /\ pc = "start"
    /\ mpileup = <<>>
    /\ processed_seq = <<>>
    /\ processed_qual = <<>>
    /\ printed = <<>>
    /\ err = "none"
    /\ result = NONE
    /\ idleReport
    /\ idleClean

Next == Load \/ CalcRegionDepth \/ AvgDepth \/ Uniformity

Spec == Init /\ [][Next]_vars

----------------------------------------------------------------------------
(* The gene-depth reporters: CalculateGeneDepth reads the region of a gene  *)
(* from the gene list itself ("direct"), CalcGeneDepth looks it up in the   *)
(* coordinate table CalcGeneDepth.genes by symbol and Ensembl ID ("xref").  *)

ReportRow(symbol, depth) == [HUGO_SYMBOL |-> symbol, DEPTH |-> depth, VARIANT_GROUP_ID |-> "GENE"]

\* CalculateGeneDepth.__init__: the table read from the gene list file is
\* bound to the local name genelist; no attribute of self is assigned
ConstructDirect ==
    /\ pc = "new"
    /\ variant = "direct"
    /\ pc' = "constructed"
    /\ UNCHANGED gene_df
    /\ UNCHANGED <<file, mpileup, processed_seq, processed_qual, printed, err, result>>
    /\ UNCHANGED <<variant, version, genelist, genes, report>>
    /\ UNCHANGED cleanVars

\* CalcGeneDepth.__init__: self.gene_df is the gene list of the version; no
\* version raises Exception
ConstructXref ==
    /\ pc = "new"
    /\ variant = "xref"
    /\ IF version # "None"
       THEN /\ gene_df' = genelist
            /\ pc' = "constructed"
            /\ UNCHANGED err
       ELSE /\ pc' = "aborted"
            /\ err' = "Exception"
            /\ UNCHANGED gene_df
    /\ UNCHANGED <<file, mpileup, processed_seq, processed_qual, printed, result>>
    /\ UNCHANGED <<variant, version, genelist, genes, report>>
    /\ UNCHANGED cleanVars

\* __call__ of either reporter starts with MpileupParser(mpileup)
Call ==
    /\ pc = "constructed"
    /\ pc' = "start"
    /\ UNCHANGED <<file, mpileup, processed_seq, processed_qual, printed, err, result>>
    /\ UNCHANGED <<reportVars, cleanVars>>

\* CalculateGeneDepth.make_depth_table: one row per row of self.gene_df
make_depth_table_direct(table, df) ==
    [k \in 1..Len(df) |->
        ReportRow(df[k].Symbol, calc_region_depth(table, df[k].Chrom, df[k].Start, df[k].End))]

\* the rest of CalculateGeneDepth.__call__; reading self.gene_df raises
\* AttributeError when the attribute was never assigned
MakeDepthTableDirect ==
    /\ pc = "loaded"
    /\ variant = "direct"
    /\ IF gene_df = UNSET
       THEN /\ pc' = "aborted"
            /\ err' = "AttributeError"
            /\ UNCHANGED report
       ELSE /\ report' = make_depth_table_direct(mpileup, gene_df)
            /\ pc' = "done"
            /\ UNCHANGED err
    /\ UNCHANGED <<file, mpileup, processed_seq, processed_qual, printed, result>>
    /\ UNCHANGED <<variant, version, genelist, gene_df, genes>>
    /\ UNCHANGED cleanVars

\* the rows of the coordinate table with the Ensembl ID and the symbol
Found(table, symbol, ensembl_id) ==
    {g \in table : g.ENSEMBL_ID = ensembl_id /\ g.SYMBOL = symbol}

\* _get_genomic_position with no except clause: the KeyError leaves the method
_get_genomic_position_uncaught(table, symbol, ensembl_id) ==
    LET found == Found(table, symbol, ensembl_id)
    IN IF found = {}
       THEN [err |-> "KeyError", note |-> <<>>, chrom |-> "chr1", start |-> 0, end |-> 0]
       ELSE LET g == CHOOSE g \in found : TRUE
            IN [err |-> "none", note |-> <<>>, chrom |-> g.CHROM, start |-> g.START, end |-> g.END]

\* CalcGeneDepth._get_genomic_position: the KeyError of a pair that is not
\* in the table is caught, a note printed, and ('chr1', 0, 0) returned
_get_genomic_position(table, symbol, ensembl_id) ==
    LET found == Found(table, symbol, ensembl_id)
    IN IF found = {}
       THEN [err |-> "none", note |-> <<<<"[INFO] gene not in gene_table", symbol>>>>,
             chrom |-> "chr1", start |-> 0, end |-> 0]
       ELSE LET g == CHOOSE g \in found : TRUE
            IN [err |-> "none", note |-> <<>>, chrom |-> g.CHROM, start |-> g.START, end |-> g.END]

\* CalcGeneDepth.make_depth_table with the column VARIANT_GROUP_ID that
\* __call__ adds
make_depth_table_xref(table, coords, df) ==
    [k \in 1..Len(df) |->
        LET p == _get_genomic_position(coords, df[k].Entrez_accession, df[k].Ensembl_ID)
        IN ReportRow(df[k].Entrez_accession, calc_region_depth(table, p.chrom, p.start, p.end))]

RECURSIVE Concat(_)
Concat(ss) == IF ss = <<>> THEN <<>> ELSE Head(ss) \o Concat(Tail(ss))

\* the rest of CalcGeneDepth.__call__
MakeDepthTableXref ==
    /\ pc = "loaded"
    /\ variant = "xref"
    /\ LET looked == [k \in 1..Len(gene_df) |->
                         _get_genomic_position(genes, gene_df[k].Entrez_accession, gene_df[k].Ensembl_ID)]
       IN IF \E k \in 1..Len(looked) : looked[k].err # "none"
          THEN /\ pc' = "aborted"
               /\ err' = looked[CHOOSE k \in 1..Len(looked) :
                                   looked[k].err # "none"
                                   /\ \A j \in 1..(k - 1) : looked[j].err = "none"].err
               /\ UNCHANGED <<report, printed>>
          ELSE /\ report' = make_depth_table_xref(mpileup, genes, gene_df)
               /\ printed' = printed \o Concat([k \in 1..Len(looked) |-> looked[k].note])
               /\ pc' = "done"
               /\ UNCHANGED err
    /\ UNCHANGED <<file, mpileup, processed_seq, processed_qual, result>>
    /\ UNCHANGED <<variant, version, genelist, gene_df, genes>>
    /\ UNCHANGED cleanVars

----------------------------------------------------------------------------
(* The inputs of the reporters *)

\* rows of the mpileup files given to a reporter, among them one whose base
\* string is one longer than its quality string and one with an empty seq
ReportRows ==
    {Row("chr1", 1, "a", 1, <<"A">>, <<"F">>),
     Row("chr1", 2, "a", 2, <<"A", "*">>, <<"F", "G">>),
     Row("chrM", 1, "a", 2, <<"A">>, <<"F">>),
     Row("chr1", 3, "a", 1, <<"A", "C">>, <<"F">>),
     Row("chr1", 3, "a", 1, NULL, <<"F">>)}

GeneEntry(symbol, chrom, start, end) ==
    [Symbol |-> symbol, Chrom |-> chrom, Start |-> start, End |-> end]

\* rows of a gene list of CalculateGeneDepth (Symbol, Chrom, Start, End)
DirectEntries ==
    {GeneEntry(g, r[1], r[2], r[3]) :
        g \in {"G1", "G2"}, r \in {<<"chr1", 1, 2>>, <<"chrM", 1, 1>>}}

XrefEntry(symbol, ensembl_id) == [Entrez_accession |-> symbol, Ensembl_ID |-> ensembl_id]

\* rows of a gene list of CalcGeneDepth (Entrez_accession, Ensembl_ID)
XrefEntries == {XrefEntry("G1", "E1"), XrefEntry("G2", "E2"), XrefEntry("G1", "E2")}

Coord(ensembl_id, symbol, chrom, start, end) ==
    [ENSEMBL_ID |-> ensembl_id, SYMBOL |-> symbol, CHROM |-> chrom, START |-> start, END |-> end]

\* coordinate tables, each with one row for a pair (SYMBOL, ENSEMBL_ID)
GeneTables ==
    {{Coord("E1", "G1", "chr1", 1, 2), Coord("E2", "G2", "chrM", 1, 1)},
     {Coord("E1", "G1", "chr1", 2, 2), Coord("E2", "G1", "chr1", 1, 1)}}

\* the end-to-end example of the documentation: chr1 positions 100..110 at
\* depth 5 and the gene list row GENE1, chr1, 100, 105
ExampleReportFile == PlainRows("chr1", 100, <<5, 5, 5, 5, 5, 5, 5, 5, 5, 5, 5>>)

ExampleGeneList == <<GeneEntry("GENE1", "chr1", 100, 105)>>

ReportFiles == SeqsUpTo(ReportRows, MaxRows)

InitReport ==
    /\ pc = "new"
    /\ mpileup = <<>>
    /\ processed_seq = <<>>
    /\ processed_qual = <<>>
    /\ printed = <<>>
    /\ err = "none"
    /\ result = NONE
    /\ gene_df = UNSET
    /\ report = NONE
    /\ idleClean
    /\ \/ /\ variant = "direct"
          /\ version = "None"
          /\ genes = {}
          /\ \/ file \in ReportFiles /\ genelist \in SeqsUpTo(DirectEntries, MaxGenes)
             \/ file = ExampleReportFile /\ genelist = ExampleGeneList
       \/ /\ variant = "xref"
          /\ file \in ReportFiles
          /\ genes \in GeneTables
          /\ \/ version = "v1" /\ genelist \in SeqsUpTo(XrefEntries, MaxGenes)
             \/ version = "None" /\ genelist = <<>>

NextReport ==
    \/ ConstructDirect
    \/ ConstructXref
    \/ Call
    \/ Load
    \/ MakeDepthTableDirect
    \/ MakeDepthTableXref

SpecReport == InitReport /\ [][NextReport]_vars

----------------------------------------------------------------------------
(* Claims about the cleaning functions, checked under SpecClean *)

\* the indices of a base string that do not hold the deletion placeholder
KeptIndices(b) == {i \in 1..Len(b) : b[i] # "*"}

\* the k-th smallest element of a set of indices
NthIndex(S, k) == CHOOSE i \in S : Cardinality({j \in S : j <= i}) = k

\* the characters of s that stand at the indices S, in their order
KeepAt(s, S) == [k \in 1..Cardinality(S) |-> s[NthIndex(S, k)]]

\* C4: for every pair (bases, qualities) of equal length, remove_asterisk
\* returns bases with every '*' deleted and qualities with exactly the
\* characters deleted that stood at the indices where bases had a '*', all
\* other characters of both strings kept in their original order.
C4_RemoveAsteriskAligned ==
    (out # NONE /\ out.kind = "remove_asterisk" /\ Len(bases) = Len(quals)) =>
        /\ out.err = "none"
        /\ out.seq = KeepAt(bases, KeptIndices(bases))
        /\ out.qual = KeepAt(quals, KeptIndices(bases))
        /\ "*" \notin Range(out.seq)

\* C4 witness: bases "A*C" with qualities "FGH" gave "AC" and "FH"
C4_Witness ==
    /\ out # NONE
    /\ out.kind = "remove_asterisk"
    /\ bases = <<"A", "*", "C">>
    /\ quals = <<"F", "G", "H">>
    /\ out.seq = <<"A", "C">>
    /\ out.qual = <<"F", "H">>

\* C5 as stated: cleaning the base string "A+2AGT" with clean_seq yields "A".
C5_Original ==
    (out # NONE /\ out.kind = "clean_seq" /\ passes = 1 /\ bases = <<"A", "+", "2", "A", "G", "T">>) =>
        out.seq = <<"A">>

\* C5 as amended: cleaning the base string "A+2AGT" with clean_seq yields
\* "AT": the token "+2" and the 2 characters after it are removed, the "T"
\* after them is kept.
C5_CleanExampleYieldsAT ==
    (out # NONE /\ out.kind = "clean_seq" /\ passes = 1 /\ bases = <<"A", "+", "2", "A", "G", "T">>) =>
        out.seq = <<"A", "T">>

\* C5 witness: clean_seq has run on "A+2AGT"
C5_Witness ==
    /\ out # NONE
    /\ out.kind = "clean_seq"
    /\ passes = 1
    /\ bases = <<"A", "+", "2", "A", "G", "T">>
    /\ Len(out.seq) = 2

\* C6: cleaning is idempotent: the cleaner (clean_seq on bases, then
\* remove_asterisk on the pair) applied to the output of a previous
\* application returns that output unchanged, and clean_seq applied to the
\* output of clean_seq returns it unchanged.
C6_CleaningIdempotent ==
    (passes >= 2 /\ out.kind \in {"clean_seq", "cleaner"}) =>
        /\ prev.kind = out.kind
        /\ out.err = "none"
        /\ out.seq = prev.seq
        /\ out.qual = prev.qual

\* C6 witness: the cleaner ran a second time, on the output of a first run
\* that had removed an indel token and a deletion placeholder and kept a base
C6_Witness ==
    /\ passes = 2
    /\ out.kind = "cleaner"
    /\ SearchIndel(bases) # 0
    /\ "*" \in Range(bases)
    /\ "^" \in Range(bases)
    /\ prev.seq # <<>>
    /\ prev.seq # bases
    /\ prev.qual # quals

\* a single left-to-right scan over s: at a sign followed by a digit, skip the
\* sign, the digit run N after it and the next N characters; anywhere else keep
\* the character and go on with the next one
RECURSIVE SingleScan(_)
SingleScan(s) ==
    IF s = <<>> THEN <<>>
    ELSE IF SearchIndel(s) = 1
         THEN LET e == MatchEnd(s, 1)
                  n == IntOfDigits(SubSeq(s, 2, e), 0)
              IN SingleScan(SubSeq(s, e + n + 1, Len(s)))
         ELSE <<Head(s)>> \o SingleScan(Tail(s))

\* C11: for every base string, _remove_indel returns exactly the string
\* produced by a single left-to-right scan that deletes each indel token (a
\* sign, the digit run N that follows it, and the next N characters) and
\* deletes nothing else, and the result contains no sign immediately followed
\* by a digit; also with several tokens, equal tokens, or a token whose text
\* occurs again inside another token's N characters.
C11_RemoveIndelIsSingleScan ==
    (out # NONE /\ out.kind = "_remove_indel") =>
        /\ out.seq = SingleScan(bases)
        /\ SearchIndel(out.seq) = 0

----------------------------------------------------------------------------
(* Claims about the loaded table and the depth queries, checked under Spec *)

RECURSIVE SumOver(_, _)
\* the sum of f over the set S
SumOver(f, S) ==
    IF S = {} THEN 0
    ELSE LET x == CHOOSE x \in S : TRUE IN f[x] + SumOver(f, S \ {x})

Abs(x) == IF x < 0 THEN -x ELSE x

\* v hundredths is sum / n rounded to 2 decimals: no hundredth is nearer
IsMeanRoundedTo2(v, sum, n) == 2 * Abs(100 * sum - v * n) <= n

\* the records of the index in the queried region, both ends included
Matching(chrom, start, end) ==
    {i \in 1..Len(mpileup) :
        mpileup[i].chrom = chrom /\ start <= mpileup[i].pos /\ mpileup[i].pos <= end}

DepthOf == [i \in 1..Len(mpileup) |-> mpileup[i].depth]

\* C1: for every (chromosome, start, end) query and every loaded index,
\* calc_region_depth returns the arithmetic mean, rounded to 2 decimals, of
\* the depth of exactly the records on that chromosome with
\* start <= position <= end, and exactly 0.0 when no record matches; depths
\* 10, 20, 30 in the interval give 20.0.
C1_RegionDepthIsRoundedMean ==
    (result # NONE /\ result.kind = "calc_region_depth") =>
        LET M == Matching(result.chrom, result.start, result.end)
        IN /\ result.err = "none"
           /\ M = {} => result.value = 0
           /\ M # {} => IsMeanRoundedTo2(result.value, SumOver(DepthOf, M), Cardinality(M))
           /\ (file = PlainRows("chr1", 1, <<10, 20, 30>>) /\ result.chrom = "chr1"
                 /\ result.start <= 1 /\ result.end >= 3) => result.value = 2000

\* C1 witness: a query whose region starts and ends at the position of a
\* record, with a record past the end and a record of another chromosome
\* left out, and the mean 4/3 returned as 1.33
C1_Witness ==
    /\ result # NONE
    /\ result.kind = "calc_region_depth"
    /\ file = RoundingFile
    /\ Cardinality(Matching(result.chrom, result.start, result.end)) = 3
    /\ \E i \in 1..Len(mpileup) : mpileup[i].pos = result.start /\ mpileup[i].chrom = result.chrom
    /\ \E i \in 1..Len(mpileup) : mpileup[i].pos = result.end /\ mpileup[i].chrom = result.chrom
    /\ \E i \in 1..Len(mpileup) : mpileup[i].pos > result.end /\ mpileup[i].chrom = result.chrom
    /\ \E i \in 1..Len(mpileup) : mpileup[i].chrom # result.chrom
    /\ result.value = 133

\* C2: for every record kept in the index after MpileupParser has loaded a
\* file, the cleaned base string and the quality string have the same length.
C2_LoadedLengthsEqual ==
    (pc = "loaded") =>
        \A i \in 1..Len(mpileup) : Len(mpileup[i].seq) = Len(mpileup[i].qual)

\* C2 witness: a loaded index of two records, one whose base string held a
\* deletion placeholder and one whose base string held an indel token
C2_Witness ==
    /\ pc = "loaded"
    /\ Len(mpileup) = 2
    /\ \E i \in 1..Len(file) : "*" \in Range(file[i].seq)
    /\ \E i \in 1..Len(file) : "+" \in Range(file[i].seq)

\* the records of the index that are not mitochondrial
NotMitochondrial == {i \in 1..Len(mpileup) : mpileup[i].chrom # "chrM"}

\* the records whose depth is at least half the mean depth of the
\* non-mitochondrial records: d >= (sum / n) / 2
AtLeastThreshold ==
    {i \in 1..Len(mpileup) :
        2 * mpileup[i].depth * Cardinality(NotMitochondrial) >= SumOver(DepthOf, NotMitochondrial)}

\* C3 as stated: for every index, uniformity equals the number of records of
\* the whole index whose depth >= T divided by the number of records of the
\* whole index, T half the mean depth of the non-chrM records, a value in
\* [0,1].
C3_Original ==
    (result # NONE /\ result.kind = "uniformity") =>
        /\ result.err = "none"
        /\ result.num = Cardinality(AtLeastThreshold)
        /\ result.den = Len(mpileup)
        /\ 0 <= result.num /\ result.num <= result.den /\ result.den > 0

\* C3 as amended: for every index that holds at least one record whose
\* chromosome is not 'chrM', uniformity equals the number of records of the
\* whole index (chrM records included) whose depth >= T divided by the number
\* of records of the whole index, T half the mean depth of the non-chrM
\* records, a value in [0,1]; five non-mitochondrial records of depths 10,
\* 10, 10, 10, 100 give one record scoring 1 of five.  For an index with no
\* non-chrM record uniformity raises StatisticsError.
C3_UniformityWhenNonMitoPresent ==
    (result # NONE /\ result.kind = "uniformity") =>
        /\ NotMitochondrial # {} =>
              /\ result.err = "none"
              /\ result.num = Cardinality(AtLeastThreshold)
              /\ result.den = Len(mpileup)
              /\ 0 <= result.num /\ result.num <= result.den /\ result.den > 0
        /\ NotMitochondrial = {} => result.err = "StatisticsError"
        /\ file = PlainRows("chr1", 1, <<10, 10, 10, 10, 100>>) =>
              result.num = 1 /\ result.den = 5

\* C3 witness: uniformity of an index with a chrM record below the threshold
\* and a chrM record at or above it, strictly between 0 and 1
C3_Witness ==
    /\ result # NONE
    /\ result.kind = "uniformity"
    /\ result.err = "none"
    /\ \E i \in AtLeastThreshold : mpileup[i].chrom = "chrM"
    /\ \E i \in 1..Len(mpileup) : mpileup[i].chrom = "chrM" /\ i \notin AtLeastThreshold
    /\ NotMitochondrial # {}
    /\ result.num = 2
    /\ result.den = 3

\* the rows of the file whose cleaned base string and quality string differ
\* in length
Mismatched ==
    {i \in 1..Len(file) :
        file[i].seq # NULL /\ file[i].qual # NULL
        /\ Len(clean_seq(file[i].seq)) # Len(file[i].qual)}

NullQual == {i \in 1..Len(file) : file[i].qual = NULL}

NullSeq == {i \in 1..Len(file) : file[i].seq = NULL}

\* C9: when the cleaned base string and the quality string of some record
\* differ in length, the offending record is skipped, every other record of
\* the file is still loaded into the index, and the load does not abort.
C9_MismatchSkipped ==
    (pc \in {"loaded", "aborted"} /\ Mismatched # {} /\ NullSeq = {}) =>
        /\ pc = "loaded"
        /\ err = "none"
        /\ Len(mpileup) = Len(file) - Cardinality(Mismatched) - Cardinality(NullQual)

\* the table as it would be with the rows of empty qual still in it
WithDroppedRows == file

\* C10: a row whose quality field is empty is dropped without an error, yet
\* calc_region_depth, avg_depth and uniformity give the same result as if
\* that row were in the index with its depth.
C10_DroppedRowsCounted ==
    (pc = "loaded" /\ result # NONE /\ NullQual # {}) =>
        /\ err = "none"
        /\ result.kind = "calc_region_depth" =>
              result.value = calc_region_depth(WithDroppedRows, result.chrom, result.start, result.end)
        /\ result.kind = "avg_depth" =>
              avg_depth(WithDroppedRows) = [err |-> result.err, hundredths |-> result.value]
        /\ result.kind = "uniformity" =>
              uniformity(WithDroppedRows) = [err |-> result.err, num |-> result.num, den |-> result.den]

----------------------------------------------------------------------------
(* Claims about the gene-depth reporters, checked under SpecReport *)

\* the exceptions that MpileupParser(mpileup) and the constructors raise
LoadErrors == {"EmptyDataError", "TypeError", "AssertionError", "Exception"}

\* the region of the k-th gene list entry: its own columns, or the row of
\* the coordinate table for its pair
RegionOf(k) ==
    IF variant = "direct"
    THEN <<genelist[k].Chrom, genelist[k].Start, genelist[k].End>>
    ELSE LET g == CHOOSE g \in genes :
                     g.SYMBOL = genelist[k].Entrez_accession /\ g.ENSEMBL_ID = genelist[k].Ensembl_ID
         IN <<g.CHROM, g.START, g.END>>

SymbolOf(k) == IF variant = "direct" THEN genelist[k].Symbol ELSE genelist[k].Entrez_accession

\* the gene list entries of the Ensembl cross-reference reporter whose pair
\* is not in the coordinate table
Missing ==
    {k \in 1..Len(genelist) :
        \A g \in genes :
            ~(g.SYMBOL = genelist[k].Entrez_accession /\ g.ENSEMBL_ID = genelist[k].Ensembl_ID)}

\* C7: for every gene list and every loaded index, the gene-depth reporter
\* returns exactly one row per gene-list entry, in the order of the gene
\* list, each row holding the gene symbol, calc_region_depth of that gene's
\* region, and the group id "GENE"; chr1 positions 100..110 at depth 5 and
\* the entry (GENE1, chr1, 100, 105) give the single row (GENE1, 5.0, GENE).
C7_ReportRowsInOrder ==
    (variant # "none" /\ pc \in {"done", "aborted"} /\ err \notin LoadErrors
        /\ (variant = "xref" => Missing = {})) =>
        /\ pc = "done"
        /\ Len(report) = Len(genelist)
        /\ \A k \in 1..Len(genelist) :
              report[k] = [HUGO_SYMBOL |-> SymbolOf(k),
                           DEPTH |-> calc_region_depth(mpileup, RegionOf(k)[1], RegionOf(k)[2], RegionOf(k)[3]),
                           VARIANT_GROUP_ID |-> "GENE"]
        /\ (file = ExampleReportFile /\ genelist = ExampleGeneList) =>
              report = <<[HUGO_SYMBOL |-> "GENE1", DEPTH |-> 500, VARIANT_GROUP_ID |-> "GENE"]>>

\* the gene list without the entries that are missing from the table
PresentEntries == KeepAt(genelist, (1..Len(genelist)) \ Missing)

\* C8: in the Ensembl cross-reference reporter, when a gene's (symbol,
\* Ensembl ID) pair is not in the coordinate table the run does not abort:
\* the region ('chr1', 0, 0) is substituted, a row for that gene is in the
\* report at its position in the gene list with depth 0.0, and the rows of
\* all other genes are the same as if the missing gene had been absent.
C8_LookupMissKeepsRow ==
    (variant = "xref" /\ version # "None" /\ Missing # {}) =>
        /\ pc = "aborted" => err \in {"EmptyDataError", "TypeError", "AssertionError"}
        /\ pc = "loaded" => ENABLED MakeDepthTableXref
        /\ pc = "done" =>
              /\ Len(report) = Len(genelist)
              /\ \A k \in Missing :
                    report[k] = [HUGO_SYMBOL |-> genelist[k].Entrez_accession, DEPTH |-> 0,
                                 VARIANT_GROUP_ID |-> "GENE"]
              /\ KeepAt(report, (1..Len(genelist)) \ Missing)
                    = make_depth_table_xref(mpileup, genes, PresentEntries)

\* C8 witness: a report whose first gene is missing from the table and whose
\* second gene is not, over an index with a record on chr1, the second row
\* with a depth above 0
C8_Witness ==
    /\ variant = "xref"
    /\ pc = "done"
    /\ Len(genelist) = 2
    /\ Missing = {1}
    /\ report[1].DEPTH = 0
    /\ report[2].DEPTH > 0
    /\ \E i \in 1..Len(mpileup) : mpileup[i].chrom = "chr1"
    /\ printed # <<>>

====
